---- MODULE Spec2Model ----
(***************************************************************************)
(* BB84 classical post-processing of navaro1/quantum-gacek-cirq.           *)
(*                                                                         *)
(* Four programs of the repository are modelled, each with its own         *)
(* specification over the shared variable tuple:                           *)
(*   SpecHash  bb84/UniversalHashing.py as used by privacy_amplification.py*)
(*   SpecRec   bb84/information_rec.py                                     *)
(*   SpecSift  presentations/bb84.py steps 1-4, or bb84/bb84.py            *)
(*   SpecEst   presentations/bb84.py step 5 (FairSpecEst adds fairness)    *)
(* A program that a specification does not run keeps its Idle value.       *)
(***************************************************************************)
EXTENDS Integers, Sequences, FiniteSets, TLC

VARIABLES
    np_state,   \* numpy's process-wide generator state (np.random)
    cfg,        \* the (input_len, output_len, load_factor) the Hashers are built with
    hashers,    \* who |-> the TwoUniversalHash object that party holds
    weak_shared_secret, \* the array the parties hash
    ret,        \* <<>> or <<r>>: the outcome r of the last hash() call
    rec,        \* module globals of bb84/information_rec.py
    pres,       \* module globals of presentations/bb84.py
    bb          \* module globals of bb84/bb84.py

vars == <<np_state, cfg, hashers, weak_shared_secret, ret, rec, pres, bb>>

Bit == {0, 1}

\* Bit strings (numpy 1-D arrays of 0/1) of length n, and of length lo..hi.
BitStrings(n) == [1..n -> Bit]
BitStringsUpTo(lo, hi) == UNION {BitStrings(n) : n \in lo..hi}

RECURSIVE SumSeq(_)
SumSeq(s) == IF s = <<>> THEN 0 ELSE Head(s) + SumSeq(Tail(s))

(***************************************************************************)
(* Bounds of the model: the longest input and output of a Hasher, the      *)
(* largest load factor (in quarters), the largest seed and the number of   *)
(* states of the generator.                                                *)
(***************************************************************************)
MaxInputLen == 1
MaxOutputLen == 2
MaxLoadNum == 4
MaxSeed == 1
PrngMod == 3

\* The smallest load factor tried, in quarters: the 0.75 of
\* privacy_amplification.py.
MinLoadNum == 3

(***************************************************************************)
(* np.random: a deterministic generator.  Seeding fixes the state from the *)
(* seed alone; every drawn bit advances the state.                         *)
(***************************************************************************)
NpRandomSeedSkipped(cur, seed) == cur
NpRandomSeed(cur, seed) == seed % PrngMod

\* One draw: the state steps through a cycle of PrngMod states and the bit
\* drawn is a fixed function of the state reached.
NpNext(s) == (s + 1) % PrngMod
NpBit(s) == (s \div 2) % 2

RECURSIVE NpAdvance(_, _)
NpAdvance(s, n) == IF n = 0 THEN s ELSE NpAdvance(NpNext(s), n - 1)

\* The next n bits drawn from state s, in the order they are drawn.
RECURSIVE NpStream(_, _)
NpStream(s, n) ==
    IF n = 0 THEN <<>> ELSE <<NpBit(NpNext(s))>> \o NpStream(NpNext(s), n - 1)

\* np.random.randint(0, 2, size=(rows, cols)): the matrix filled row by row
\* with the bits of `stream` that follow the first `skip`.
NpRandintMatrix(stream, skip, rows, cols) ==
    [r \in 1..rows |-> [c \in 1..cols |-> stream[skip + (r - 1) * cols + c]]]

(***************************************************************************)
(* TwoUniversalHash                                                        *)
(***************************************************************************)
Parties == {"alice", "bob"}
Seeds == 0..MaxSeed
\* load_factor = num / 4: multiples of 0.25, which floats hold exactly,
\* from the script's 0.75 to the default 1 and beyond.
LoadFactors == {[num |-> n, den |-> 4] : n \in MinLoadNum..MaxLoadNum}

\* Python's round(): to the nearest integer, halves to the even one.
PyRound(num, den) ==
    LET f == num \div den
        r == num % den
    IN  IF 2 * r < den THEN f
        ELSE IF 2 * r > den THEN f + 1
        ELSE IF f % 2 = 0 THEN f ELSE f + 1

HashWidthRounded(output_len, lf) == PyRound(output_len * lf.num, lf.den)
\* self.m = int(output_len * load_factor)
HashWidth(output_len, lf) == (output_len * lf.num) \div lf.den

\* The loop of _generate_random_matrices over the bits it draws; `state`
\* is the generator's state after the last draw.
MatricesFrom(stream, state, input_len, output_len, m) ==
    [matrices |-> [j \in 1..output_len |->
                      NpRandintMatrix(stream, (j - 1) * input_len * m, input_len, m)],
     state    |-> state]

\* _generate_random_matrices: seed the global generator, then draw
\* output_len matrices of shape (input_len, m) one after the other.
GenerateRandomMatrices(cur, seed, input_len, output_len, m) ==
    MatricesFrom(NpStream(NpRandomSeed(cur, seed), output_len * input_len * m),
                 NpAdvance(NpRandomSeed(cur, seed), output_len * input_len * m),
                 input_len, output_len, m)

\* __init__ with the seed already resolved.
NewHasher(cur, input_len, output_len, lf, seed) ==
    LET m == HashWidth(output_len, lf)
        g == GenerateRandomMatrices(cur, seed, input_len, output_len, m)
    IN  [obj   |-> [input_len |-> input_len, output_len |-> output_len,
                    load_factor |-> lf, m |-> m, seed |-> seed,
                    matrices |-> g.matrices],
         state |-> g.state]

\* np.dot(input_array, matrix) % 2: one entry per column of the matrix.
DotMod2(x, matrix, m) ==
    [c \in 1..m |-> SumSeq([r \in 1..Len(x) |-> x[r] * matrix[r][c]]) % 2]

HashLengthOKLoose(h, x) == Len(x) <= h.input_len
\* the guard of hash(): len(input_array) != self.input_len raises ValueError
HashLengthOK(h, x) == Len(x) = h.input_len

\* The array hash() returns for an input of the right length.
HashOutput(h, x) ==
    [i \in 1..h.output_len |-> SumSeq(DotMod2(x, h.matrices[i], h.m)) % 2]

\* hash(): the outcome of one call.
HashCall(h, x) ==
    IF HashLengthOK(h, x)
    THEN [raised |-> FALSE, out |-> HashOutput(h, x)]
    ELSE [raised |-> TRUE, out |-> <<>>]

\* A script that is not run, and no Hasher in use.
Idle == [pc |-> "idle"]
HashIdle ==
    /\ np_state = 0
    /\ cfg = Idle
    /\ hashers = <<>>
    /\ weak_shared_secret = <<>>
    /\ ret = <<>>

InitHash ==
    /\ np_state \in 0..(PrngMod - 1)
    /\ cfg \in [input_len : 1..MaxInputLen, output_len : 1..MaxOutputLen,
                load_factor : LoadFactors]
    /\ weak_shared_secret \in BitStringsUpTo(0, cfg.input_len + 1)
    /\ hashers = <<>>
    /\ ret = <<>>
    /\ rec = Idle /\ pres = Idle /\ bb = Idle

HashOthers == UNCHANGED <<cfg, weak_shared_secret, rec, pres, bb>>

Bind(who, obj) ==
    [p \in (DOMAIN hashers) \cup {who} |-> IF p = who THEN obj ELSE hashers[p]]

\* uh = TwoUniversalHash(input_len, output_len, load_factor, seed)
Construct(who, seed) ==
    LET n == NewHasher(np_state, cfg.input_len, cfg.output_len, cfg.load_factor, seed)
    IN  /\ hashers' = Bind(who, n.obj)
        /\ np_state' = n.state
        /\ UNCHANGED ret
        /\ HashOthers

\* seed=None: the seed is random.randint(0, 2 ** 32 - 1), drawn from
\* Python's own generator, here any seed of the bounded range.
ConstructNoSeed(who) ==
    \E seed \in Seeds :
        LET n == NewHasher(np_state, cfg.input_len, cfg.output_len, cfg.load_factor, seed)
        IN  /\ hashers' = Bind(who, n.obj)
            /\ np_state' = n.state
            /\ UNCHANGED ret
            /\ HashOthers

\* Any other use of the global generator between two calls: a bit drawn
\* by np.random.randint(0, 2, ...); longer arrays are repeated draws.
OtherDraw ==
    /\ np_state' = NpNext(np_state)
    /\ UNCHANGED <<hashers, ret>>
    /\ HashOthers

\* uh.hash(weak_shared_secret)
Hash(who) ==
    /\ who \in DOMAIN hashers
    /\ ret' = <<[who |-> who, input |-> weak_shared_secret]
                 @@ HashCall(hashers[who], weak_shared_secret)>>
    /\ UNCHANGED <<np_state, hashers>>
    /\ HashOthers

NextHash ==
    \/ \E who \in Parties, seed \in Seeds : Construct(who, seed)
    \/ \E who \in Parties : ConstructNoSeed(who)
    \/ OtherDraw
    \/ \E who \in Parties : Hash(who)

SpecHash == InitHash /\ [][NextHash]_vars

(***************************************************************************)
(* Claims about TwoUniversalHash (checked under SpecHash).                 *)
(***************************************************************************)
SameParameters(g, h) ==
    /\ g.input_len = h.input_len
    /\ g.output_len = h.output_len
    /\ g.load_factor = h.load_factor
    /\ g.seed = h.seed

\* C1: two Hashers built independently with identical (input_len,
\* output_len, load_factor, seed) give the same hash(x) for every input x
\* of length input_len, whatever was drawn from the global generator and
\* whatever was constructed between the two constructions and the calls.
C1_SameSeedSameHash ==
    \A p \in DOMAIN hashers, q \in DOMAIN hashers :
        SameParameters(hashers[p], hashers[q]) =>
            \A x \in BitStrings(hashers[p].input_len) :
                /\ ~HashCall(hashers[p], x).raised
                /\ HashCall(hashers[p], x) = HashCall(hashers[q], x)

\* Both parties hold a Hasher of the same seed with non-empty matrices, the
\* global generator has been used since, and a hash value was returned.
C1_Witness ==
    /\ DOMAIN hashers = Parties
    /\ SameParameters(hashers["alice"], hashers["bob"])
    /\ hashers["alice"].m >= 1
    /\ np_state # NewHasher(np_state, cfg.input_len, cfg.output_len,
                            cfg.load_factor, hashers["bob"].seed).state
    /\ ret # <<>> /\ ~ret[1].raised

IsBitString(s, n) == Len(s) = n /\ \A i \in 1..n : s[i] \in Bit

\* C8: a hash() call whose input length differs from input_len raises and
\* returns nothing, one whose input has length input_len returns a bit
\* string of length output_len, and neither changes the Hasher.
C8_HashLengthContract ==
    [][ret' # ret =>
        LET r == ret'[1]
            h == hashers[r.who]
        IN  /\ hashers' = hashers
            /\ IF Len(r.input) # h.input_len
               THEN r.raised /\ r.out = <<>>
               ELSE ~r.raised /\ IsBitString(r.out, h.output_len)]_vars

\* A call with a too short input raised, on a Hasher that has matrices.
C8_Witness ==
    /\ ret # <<>>
    /\ ret[1].raised
    /\ Len(ret[1].input) < hashers[ret[1].who].input_len
    /\ hashers[ret[1].who].m >= 1

MatrixShapeOK(h, m) ==
    /\ Len(h.matrices) = h.output_len
    /\ \A j \in 1..h.output_len :
          /\ Len(h.matrices[j]) = h.input_len
          /\ \A r \in 1..h.input_len : IsBitString(h.matrices[j][r], m)

\* C9 as stated: output_len binary matrices of shape (input_len, m) with
\* m = round(output_len * load_factor).
C9_RoundedWidth ==
    \A p \in DOMAIN hashers :
        LET h == hashers[p]
        IN  MatrixShapeOK(h, PyRound(h.output_len * h.load_factor.num, h.load_factor.den))

\* C9 amended: output_len binary matrices of shape (input_len, m) where m
\* is output_len * load_factor truncated to an integer:
\* m <= output_len * load_factor < m + 1.
C9_TruncatedWidth ==
    \A p \in DOMAIN hashers :
        LET h == hashers[p]
        IN  /\ h.m * h.load_factor.den <= h.output_len * h.load_factor.num
            /\ h.output_len * h.load_factor.num < (h.m + 1) * h.load_factor.den
            /\ MatrixShapeOK(h, h.m)

\* The Hasher of privacy_amplification.py: output_len 2, load_factor 0.75.
C9_Witness ==
    \E p \in DOMAIN hashers :
        /\ hashers[p].output_len = 2
        /\ hashers[p].load_factor = [num |-> 3, den |-> 4]
        /\ hashers[p].m = 1

(***************************************************************************)
(* bb84/information_rec.py: syndrome decoding with the two-row code.       *)
(* The script runs top to bottom; rec.pc is the next statement and a       *)
(* global exists in rec once its assignment has run.                       *)
(***************************************************************************)
\* Assignment of globals: the names of `new` are (re)bound in `env`.
Assign(env, new) == new @@ env

parity_check_matrix == <<<<1, 1, 0>>, <<0, 1, 1>>>>

\* np.matmul(matrix, vector): integer arithmetic, no reduction.
MatMul(matrix, v) ==
    [i \in 1..Len(matrix) |-> SumSeq([j \in 1..Len(v) |-> matrix[i][j] * v[j]])]

\* (u + v) % 2, elementwise
AddMod2(u, v) == [i \in 1..Len(u) |-> (u[i] + v[i]) % 2]

NoEstimate == <<>>

ErrorEstimateSwapped(syndrome) ==
    IF syndrome = <<0, 0>> THEN <<0, 0, 0>>
    ELSE IF syndrome = <<0, 1>> THEN <<0, 0, 1>>
    ELSE IF syndrome = <<1, 0>> THEN <<0, 1, 0>>
    ELSE IF syndrome = <<1, 1>> THEN <<1, 0, 0>>
    ELSE NoEstimate

\* error_estimate: the four-way syndrome table; any other syndrome falls
\* off the end of the function (None).
ErrorEstimate(syndrome) ==
    IF syndrome = <<0, 0>> THEN <<0, 0, 0>>
    ELSE IF syndrome = <<0, 1>> THEN <<0, 0, 1>>
    ELSE IF syndrome = <<1, 0>> THEN <<1, 0, 0>>
    ELSE IF syndrome = <<1, 1>> THEN <<0, 1, 0>>
    ELSE NoEstimate

\* The script fixes alice_bit_string = [0, 0, 1] and noise_vector = [0, 0, 0];
\* here every codeword and every noise vector of the code's length.
InitRec ==
    /\ rec \in [pc : {"alice_syndrome"},
                alice_bit_string : BitStrings(Len(parity_check_matrix[1])),
                noise_vector : BitStrings(Len(parity_check_matrix[1]))]
    /\ HashIdle
    /\ pres = Idle /\ bb = Idle

RecOthers == UNCHANGED <<np_state, cfg, hashers, weak_shared_secret, ret, pres, bb>>

AliceSyndrome ==
    /\ rec.pc = "alice_syndrome"
    /\ rec' = Assign(rec, [pc |-> "bob_received_message",
                           alice_syndrome |-> MatMul(parity_check_matrix, rec.alice_bit_string)])
    /\ RecOthers

BobReceivedMessage ==
    /\ rec.pc = "bob_received_message"
    /\ rec' = Assign(rec, [pc |-> "bob_received_syndrome",
                           bob_received_message |-> AddMod2(rec.alice_bit_string, rec.noise_vector)])
    /\ RecOthers

BobReceivedSyndrome ==
    /\ rec.pc = "bob_received_syndrome"
    /\ rec' = Assign(rec, [pc |-> "sum_syndrome",
                           bob_received_syndrome |-> MatMul(parity_check_matrix, rec.bob_received_message)])
    /\ RecOthers

SumSyndrome ==
    /\ rec.pc = "sum_syndrome"
    /\ rec' = Assign(rec, [pc |-> "error_estimate_s",
                           sum_syndrome |-> AddMod2(rec.bob_received_syndrome, rec.alice_syndrome)])
    /\ RecOthers

ErrorEstimateS ==
    /\ rec.pc = "error_estimate_s"
    /\ rec' = Assign(rec, [pc |-> "bob_decoded_message",
                           error_estimate_s |-> ErrorEstimate(rec.sum_syndrome)])
    /\ RecOthers

\* bob_received_message + None raises TypeError: no decoded message then.
BobDecodedMessage ==
    /\ rec.pc = "bob_decoded_message"
    /\ rec' = IF rec.error_estimate_s = NoEstimate
              THEN Assign(rec, [pc |-> "TypeError"])
              ELSE Assign(rec, [pc |-> "done",
                                bob_decoded_message |->
                                    AddMod2(rec.bob_received_message, rec.error_estimate_s)])
    /\ RecOthers

NextRec ==
    \/ AliceSyndrome
    \/ BobReceivedMessage
    \/ BobReceivedSyndrome
    \/ SumSyndrome
    \/ ErrorEstimateS
    \/ BobDecodedMessage

SpecRec == InitRec /\ [][NextRec]_vars

(***************************************************************************)
(* Claims about reconciliation (checked under SpecRec).                    *)
(***************************************************************************)
Weight(v) == SumSeq(v)

\* C4: for the code [[1,1,0],[0,1,1]], every 3-bit string x and every noise
\* vector of at most one flipped bit, Bob's decoded message is exactly x.
C4_SingleFlipRecovered ==
    (rec.pc \in {"done", "TypeError"} /\ Weight(rec.noise_vector) <= 1) =>
        /\ rec.pc = "done"
        /\ rec.bob_decoded_message = rec.alice_bit_string

\* A received word with exactly one flipped bit was decoded.
C4_Witness ==
    /\ rec.pc = "done"
    /\ Weight(rec.noise_vector) = 1
    /\ rec.bob_received_message # rec.alice_bit_string
    /\ rec.bob_decoded_message = rec.alice_bit_string

\* The modulo-2 matrix-vector product of the data model.
SyndromeMod2(matrix, v) == [i \in 1..Len(matrix) |-> MatMul(matrix, v)[i] % 2]

\* C10: Alice's syndrome and Bob's received syndrome are the modulo-2
\* products parity_check . x: one entry per row, every entry 0 or 1.
C10_SyndromesAreBitStrings ==
    /\ "alice_syndrome" \in DOMAIN rec =>
          /\ IsBitString(rec.alice_syndrome, Len(parity_check_matrix))
          /\ rec.alice_syndrome = SyndromeMod2(parity_check_matrix, rec.alice_bit_string)
    /\ "bob_received_syndrome" \in DOMAIN rec =>
          /\ IsBitString(rec.bob_received_syndrome, Len(parity_check_matrix))
          /\ rec.bob_received_syndrome =
                 SyndromeMod2(parity_check_matrix, rec.bob_received_message)

(***************************************************************************)
(* Steps 1-4 of the two bb84.py scripts: preparation, Bob's measurement    *)
(* and sifting.  Positions are 1-based here, 0-based in the source.        *)
(***************************************************************************)
MaxStrLen == 3

\* A qubit is in one of the four BB84 states (a global phase is dropped).
GateX(q) == IF q = "0" THEN "1" ELSE IF q = "1" THEN "0" ELSE q
GateH(q) == IF q = "0" THEN "+" ELSE IF q = "1" THEN "-"
            ELSE IF q = "+" THEN "0" ELSE "1"
\* Measurement in the computational basis: its possible results.
Outcomes(q) == IF q = "0" THEN {0} ELSE IF q = "1" THEN {1} ELSE {0, 1}

\* presentations: X if alice_a[idx] == 1, then H if alice_b[idx] == 1
PresPrepare(a, b) ==
    LET q1 == IF a = 1 THEN GateX("0") ELSE "0"
    IN  IF b = 1 THEN GateH(q1) ELSE q1

\* bb84/bb84.py: the StatePreparationChannel chosen from (string_b, string_a)
BBPrepare(aa, ab) ==
    IF ab = 0 /\ aa = 0 THEN "0"
    ELSE IF ab = 0 /\ aa = 1 THEN "1"
    ELSE IF ab = 1 /\ aa = 0 THEN "+"
    ELSE "-"

\* Bob: H if his basis bit is 1, then measure.
BobMeasure(q, basis) == Outcomes(IF basis = 1 THEN GateH(q) ELSE q)

\* u != v on two arrays
NeMask(u, v) == [i \in 1..Len(u) |-> u[i] # v[i]]

EqMaskInverted(u, v) == [i \in 1..Len(u) |-> u[i] # v[i]]
\* u == v on two arrays: the boolean mask
EqMask(u, v) == [i \in 1..Len(u) |-> u[i] = v[i]]

RECURSIVE BoolIndexFrom(_, _, _)
BoolIndexFrom(data, mask, i) ==
    IF i > Len(mask) THEN <<>>
    ELSE (IF mask[i] THEN <<data[i]>> ELSE <<>>) \o BoolIndexFrom(data, mask, i + 1)

\* data[mask] with a boolean mask
BoolIndex(data, mask) == BoolIndexFrom(data, mask, 1)

\* data[indices] with an integer index array
IntIndex(data, indices) == [k \in 1..Len(indices) |-> data[indices[k]]]

\* Steps 1: alice_a and alice_b, any bits the generator may return.
InitPresSift ==
    /\ pres \in UNION {[pc : {"step3"}, string_length : {n},
                        alice_a : BitStrings(n), alice_b : BitStrings(n)]
                       : n \in 1..MaxStrLen}
    /\ bb = Idle

\* Step 1 of bb84/bb84.py: string_a and string_b.
InitBBSift ==
    /\ bb \in UNION {[pc : {"string_b_prim"}, string_length : {n},
                      string_a : BitStrings(n), string_b : BitStrings(n)]
                     : n \in 1..MaxStrLen}
    /\ pres = Idle

InitSift ==
    /\ InitPresSift \/ InitBBSift
    /\ HashIdle
    /\ rec = Idle

PresOthers == UNCHANGED <<np_state, cfg, hashers, weak_shared_secret, ret, rec, bb>>
BBOthers == UNCHANGED <<np_state, cfg, hashers, weak_shared_secret, ret, rec, pres>>

\* Step 3: bob_b = qrng.generate_binary_array(string_length)
PresStep3 ==
    /\ pres.pc = "step3"
    /\ \E b \in BitStrings(pres.string_length) :
          pres' = Assign(pres, [pc |-> "measure", bob_b |-> b])
    /\ PresOthers

\* Steps 2-3: the circuit is simulated and all qubits measured.
PresMeasure ==
    /\ pres.pc = "measure"
    /\ \E m \in BitStrings(pres.string_length) :
          /\ \A i \in 1..pres.string_length :
                m[i] \in BobMeasure(PresPrepare(pres.alice_a[i], pres.alice_b[i]),
                                    pres.bob_b[i])
          /\ pres' = Assign(pres, [pc |-> "step4", bob_guess_decode |-> m])
    /\ PresOthers

\* Step 4: sifting
PresStep4 ==
    /\ pres.pc = "step4"
    /\ LET mask == EqMask(pres.alice_b, pres.bob_b)
       IN  pres' = Assign(pres, [pc |-> "sifted",
                                 b_matching_indices |-> mask,
                                 alice_kept_a |-> BoolIndex(pres.alice_a, mask),
                                 bob_kept_a |-> BoolIndex(pres.bob_guess_decode, mask)])
    /\ PresOthers

\* string_b_prim = np.random.randint(0, 2, size=string_length)
BBStringBPrim ==
    /\ bb.pc = "string_b_prim"
    /\ \E b \in BitStrings(bb.string_length) :
          bb' = Assign(bb, [pc |-> "measure", string_b_prim |-> b])
    /\ BBOthers

\* Bob receives and measures: string_a_prim
BBMeasure ==
    /\ bb.pc = "measure"
    /\ \E m \in BitStrings(bb.string_length) :
          /\ \A i \in 1..bb.string_length :
                m[i] \in BobMeasure(BBPrepare(bb.string_a[i], bb.string_b[i]),
                                    bb.string_b_prim[i])
          /\ bb' = Assign(bb, [pc |-> "sift", string_a_prim |-> m])
    /\ BBOthers

\* matching_bases_array_s, alice_string_s, bob_string_s
BBSift ==
    /\ bb.pc = "sift"
    /\ LET mask == EqMask(bb.string_b, bb.string_b_prim)
       IN  bb' = Assign(bb, [pc |-> "alice_t",
                             matching_bases_array_s |-> mask,
                             alice_string_s |-> BoolIndex(bb.string_a, mask),
                             bob_string_s |-> BoolIndex(bb.string_b, mask)])
    /\ BBOthers

\* Sorted index arrays of k distinct positions out of n.
SortedChoices(n, k) ==
    {t \in [1..k -> 1..n] : \A i \in 1..k, j \in 1..k : i < j => t[i] < t[j]}

\* alice_t = sorted(np.random.choice(len, floor(len / 2), replace=False)),
\* then alice_x_t and bob_x_t
BBSample ==
    /\ bb.pc = "alice_t"
    /\ \E t \in SortedChoices(Len(bb.alice_string_s), Len(bb.alice_string_s) \div 2) :
          bb' = Assign(bb, [pc |-> "done",
                            alice_t |-> t,
                            alice_x_t |-> IntIndex(bb.alice_string_s, t),
                            bob_x_t |-> IntIndex(bb.bob_string_s, t)])
    /\ BBOthers

NextSift ==
    \/ PresStep3
    \/ PresMeasure
    \/ PresStep4
    \/ BBStringBPrim
    \/ BBMeasure
    \/ BBSift
    \/ BBSample

SpecSift == InitSift /\ [][NextSift]_vars

(***************************************************************************)
(* Claims about sifting (checked under SpecSift).                          *)
(***************************************************************************)
\* The positions of 1..n where the two basis strings agree, and the rank
\* of such a position among them.
Agreeing(basis_a, basis_b) == {i \in 1..Len(basis_a) : basis_a[i] = basis_b[i]}
Rank(S, i) == Cardinality({j \in S : j <= i})

\* out is data restricted to the agreeing positions, in the original order.
IsSifted(out, basis_a, basis_b, data) ==
    LET S == Agreeing(basis_a, basis_b)
    IN  /\ Len(out) = Cardinality(S)
        /\ \A i \in S : out[Rank(S, i)] = data[i]

\* C6: without eavesdropper or noise, Bob's sifted string is his measured
\* bits at the positions where the bases agree, and equals Alice's sifted
\* string, for all of Alice's bits and both parties' bases.
C6_SiftedKeysAgree ==
    /\ pres.pc = "sifted" =>
          /\ IsSifted(pres.bob_kept_a, pres.alice_b, pres.bob_b, pres.bob_guess_decode)
          /\ pres.bob_kept_a = pres.alice_kept_a
    /\ bb.pc \in {"alice_t", "done"} =>
          /\ IsSifted(bb.bob_string_s, bb.string_b, bb.string_b_prim, bb.string_a_prim)
          /\ bb.bob_string_s = bb.alice_string_s

\* C7: sifting returns as many elements as there are positions where the
\* basis strings agree, the k-th being data at the k-th such position; no
\* agreeing position gives the empty string.
C7_SiftingCorrect ==
    /\ pres.pc = "sifted" =>
          /\ IsSifted(pres.alice_kept_a, pres.alice_b, pres.bob_b, pres.alice_a)
          /\ IsSifted(pres.bob_kept_a, pres.alice_b, pres.bob_b, pres.bob_guess_decode)
          /\ (Agreeing(pres.alice_b, pres.bob_b) = {} => pres.alice_kept_a = <<>>)
    /\ bb.pc \in {"alice_t", "done"} =>
          /\ IsSifted(bb.alice_string_s, bb.string_b, bb.string_b_prim, bb.string_a)
          /\ IsSifted(bb.bob_string_s, bb.string_b, bb.string_b_prim, bb.string_b)
          /\ (Agreeing(bb.string_b, bb.string_b_prim) = {} => bb.alice_string_s = <<>>)

\* A sifted string that dropped the first position and kept two others,
\* holding different bits.
C7_Witness ==
    /\ pres.pc = "sifted"
    /\ Agreeing(pres.alice_b, pres.bob_b) = {2, 3}
    /\ pres.alice_kept_a = <<0, 1>>
    /\ pres.alice_a = <<1, 0, 1>>

(***************************************************************************)
(* Step 5 of presentations/bb84.py: the test sample, the threshold check   *)
(* and the final key.  The run starts with the strings kept after the      *)
(* second sifting (lines 100-102); with Eve on the channel Bob's measured  *)
(* bits are unrelated to Alice's, so every pair of equally long strings    *)
(* can be the kept pair.                                                   *)
(***************************************************************************)
MaxKept == 5
SampleSize == 4
threshold == 1

\* np.where(cond)[0]: the positions where cond holds, ascending.
Nonzero(cond) == BoolIndex([i \in 1..Len(cond) |-> i], cond)
\* np.where(cond) with the condition alone: a tuple holding one index
\* array per dimension of cond; cond is 1-D here.
NpWhere(cond) == <<Nonzero(cond)>>

IsOne(v) == [i \in 1..Len(v) |-> v[i] = 1]
IsZero(v) == [i \in 1..Len(v) |-> v[i] = 0]

InitEst ==
    /\ pres \in UNION {[pc : {"step5_while"},
                        alice_kept_a : BitStrings(n), bob_kept_a : BitStrings(n),
                        test_indices : {<<>>}, stdout : {<<>>}]
                       : n \in 0..MaxKept}
    /\ HashIdle
    /\ rec = Idle /\ bb = Idle

\* One pass through the body of `while len(test_indices) != 4`.
\* generate_binary_array(0) asks the simulator to measure no qubits, which
\* it refuses with a ValueError.
Step5Draw ==
    /\ pres.pc = "step5_while"
    /\ Len(pres.test_indices) # SampleSize
    /\ IF Len(pres.alice_kept_a) = 0
       THEN pres' = Assign(pres, [pc |-> "ValueError"])
       ELSE \E source \in BitStrings(Len(pres.alice_kept_a)) :
               pres' = Assign(pres, [test_indices_source |-> source,
                                     test_indices |-> NpWhere(IsOne(source))[1]])
    /\ PresOthers

\* The pass that draws exactly the four indices the loop waits for.
Step5DrawHit == Step5Draw /\ Len(pres'.test_indices) = SampleSize

\* The loop ends: the test indices are announced and the test bits taken.
Step5Exit ==
    /\ pres.pc = "step5_while"
    /\ Len(pres.test_indices) = SampleSize
    /\ pres' = Assign(pres, [pc |-> "threshold",
                             alice_test_a |-> IntIndex(pres.alice_kept_a, pres.test_indices),
                             bob_test_a |-> IntIndex(pres.bob_kept_a, pres.test_indices)])
    /\ PresOthers

\* not_matching_elements = len(np.where(alice_test_a != bob_test_a))
Step5Threshold ==
    /\ pres.pc = "threshold"
    /\ LET n == Len(NpWhere(NeMask(pres.alice_test_a, pres.bob_test_a)))
       IN  pres' = Assign(pres, [pc |-> "final",
                                 not_matching_elements |-> n,
                                 stdout |-> Append(pres.stdout,
                                                   IF n > threshold
                                                   THEN "Restart the protocol!"
                                                   ELSE "Continue!")])
    /\ PresOthers

\* final_indices, alice_final_a, bob_final_a and the two prints
Step5Final ==
    /\ pres.pc = "final"
    /\ LET final_indices == NpWhere(IsZero(pres.test_indices_source))[1]
           alice_final_a == IntIndex(pres.alice_kept_a, final_indices)
           bob_final_a == IntIndex(pres.bob_kept_a, final_indices)
       IN  pres' = Assign(pres, [pc |-> "done",
                                 final_indices |-> final_indices,
                                 alice_final_a |-> alice_final_a,
                                 bob_final_a |-> bob_final_a,
                                 stdout |-> pres.stdout \o <<"final keys">>])
    /\ PresOthers

NextEst ==
    \/ Step5Draw
    \/ Step5Exit
    \/ Step5Threshold
    \/ Step5Final

SpecEst == InitEst /\ [][NextEst]_vars

\* The script always runs its next statement, and a source of independent
\* unbiased bits that is asked again and again returns every outcome.
FairSpecEst == SpecEst /\ WF_vars(NextEst) /\ SF_vars(Step5DrawHit)

(***************************************************************************)
(* Claims about parameter estimation (SpecEst, FairSpecEst).               *)
(***************************************************************************)
Printed(line) == \E k \in 1..Len(pres.stdout) : pres.stdout[k] = line

\* The number of positions where the two test strings differ.
Mismatches == Cardinality({i \in 1..Len(pres.alice_test_a) :
                             pres.alice_test_a[i] # pres.bob_test_a[i]})

\* C2: with threshold 1 the decision is "Restart the protocol!" exactly
\* when the test strings differ in more positions than the threshold
\* (2 or more), and "Continue!" otherwise.
C2_AbortIffOverThreshold ==
    pres.pc \in {"final", "done"} =>
        /\ Printed("Restart the protocol!") <=> Mismatches > threshold
        /\ Printed("Continue!") <=> Mismatches <= threshold

\* C3: once parameter estimation has to abort (more mismatches than the
\* threshold, or the restart message printed) the run derives and prints
\* no final key.
C3_AbortIsTerminal ==
    (pres.pc \in {"final", "done"}
        /\ (Printed("Restart the protocol!") \/ Mismatches > threshold)) =>
        /\ pres.pc # "done"
        /\ "alice_final_a" \notin DOMAIN pres
        /\ ~Printed("final keys")

\* C5: the selection of the test indices ends for every length of the
\* sifted key, with a failure when the key is too short for the sample of
\* 4 and with a sample otherwise.
C5_SelectionTerminates ==
    <>(pres.pc # "step5_while")

====
